---- MODULE Spec2Model ----
(***************************************************************************)
(* A model of labkey_multisite_query_tool/labkey.py: the LabKey class, its *)
(* constructor, the YAML loader, login() and query().                      *)
(*                                                                         *)
(* Python values are modelled as follows.                                  *)
(*   - A str is a sequence of tokens; a one-character token stands for a   *)
(*     character, so that str.split, str.join and str.format are computed. *)
(*   - A dict is a function, its keys the function's domain.               *)
(*   - A list is a sequence.                                               *)
(*   - The list and dict objects a LabKey instance refers to live in       *)
(*     `heap`, and the instance holds their identities, as Python          *)
(*     attributes hold references.                                         *)
(***************************************************************************)
EXTENDS Integers, Sequences, FiniteSets, TLC

VARIABLES
    heap,    \* list/dict objects by identity: heap[id] is the object's value
    conns,   \* the LabKey instances alive, in creation order
    config,  \* the parsed YAML document handed to from_yaml_file
    hist,    \* per instance: what its calls have done so far (history only)
    last     \* the most recent call: its arguments, request, response, outcome

vars == <<heap, conns, config, hist, last>>

None == "None"

----------------------------------------------------------------------------
(* Bounds of the model.                                                    *)

\* Longest filter key, in characters.
MaxKeyLen == 3
\* Longest configured column list.
MaxColumns == 2
\* Most rows in one server response.
MaxRows == 2
\* Most entries of the servers list of a configuration document.
MaxServers == 2
\* Most LabKey instances alive at once.
MaxConns == 2

----------------------------------------------------------------------------
(* Strings and dicts.                                                      *)

Range(f) == {f[x] : x \in DOMAIN f}

\* dict.get(key, default)
Get(d, key, default) == IF key \in DOMAIN d THEN d[key] ELSE default

\* All sequences over S of length at most n.
SeqsUpTo(S, n) == UNION {[1..k -> S] : k \in 0..n}

\* Every order in which the keys of a dict can be iterated.
Orders(S) ==
    {o \in [1..Cardinality(S) -> S] : \A i, j \in DOMAIN o : i # j => o[i] # o[j]}

\* All dicts with keys in K and values in V.
Dicts(K, V) == UNION {[D -> V] : D \in SUBSET K}

\* str.split(sep): the pieces of s between the occurrences of sep.
RECURSIVE split(_, _)
split(s, sep) ==
    IF \A i \in 1..Len(s) : s[i] # sep
    THEN <<s>>
    ELSE LET i == CHOOSE i \in 1..Len(s) :
                      s[i] = sep /\ \A j \in 1..(i - 1) : s[j] # sep
         IN  <<SubSeq(s, 1, i - 1)>> \o split(SubSeq(s, i + 1, Len(s)), sep)

\* sep.join(parts)
RECURSIVE join(_, _)
join(parts, sep) ==
    IF parts = <<>> THEN <<>>
    ELSE IF Len(parts) = 1 THEN Head(parts)
    ELSE Head(parts) \o <<sep>> \o join(Tail(parts), sep)

----------------------------------------------------------------------------
(* LabKey.url: urljoin(self.host, relative_url).  A host is an origin, the *)
(* directory segments of its path, and the path's last segment ("" when    *)
(* the path ends in "/"); urljoin resolves a relative path against the     *)
(* directory, so the last segment is dropped.  The relative paths the      *)
(* class passes never start with "/".                                      *)

url(host, relative_url) ==
    [origin |-> host.origin, path |-> host.dir \o relative_url]

----------------------------------------------------------------------------
(* requests.Session: the cookie jar of one LabKey instance.  A response's  *)
(* Set-Cookie headers are stored in the jar as the response arrives,       *)
(* whatever its status; a cookie sent already expired is removed.          *)

Expired == "expired"

\* Faulty variant: a cookie sent already expired is kept instead of removed.
extract_keeps_expired(jar, set_cookie) ==
    [n \in DOMAIN jar \cup DOMAIN set_cookie |->
        IF n \in DOMAIN set_cookie THEN set_cookie[n] ELSE jar[n]]

extract_cookies_to_jar(jar, set_cookie) ==
    LET removed == {n \in DOMAIN set_cookie : set_cookie[n] = Expired}
        stored  == DOMAIN set_cookie \ removed
    IN  [n \in (DOMAIN jar \ removed) \cup stored |->
            IF n \in stored THEN set_cookie[n] ELSE jar[n]]

\* Response.raise_for_status raises HTTPError for a 4xx or 5xx status.
raise_for_status(status) == status >= 400 /\ status < 600

----------------------------------------------------------------------------
(* LabKey.query, lines 99-129: the translation of columns and filters.     *)

\* The dicts {value: key for key, value in aliases.iteritems()} can be: when
\* two keys carry the same value, the key iterated last wins, and the
\* iteration order of a dict is not specified.
reverse_aliases(aliases) ==
    {r \in [Range(aliases) -> DOMAIN aliases] : \A v \in DOMAIN r : aliases[r[v]] = v}

\* [reverse_aliases.get(column, column) for column in self.columns]
request_columns(columns, rev) ==
    [i \in DOMAIN columns |-> Get(rev, columns[i], columns[i])]

\* "query.{0}~{1}".format(labkey_column, operator)
expression(labkey_column, operator) ==
    <<"query.">> \o labkey_column \o <<"~">> \o operator

\* column, operator = key.split("~"): unpacking needs exactly two pieces.
unpack_ok(parts) == Len(parts) = 2

\* Faulty variant: the column of a filter key is not translated.
RECURSIVE filter_loop_untranslated(_, _, _, _)
filter_loop_untranslated(filters, ord, rev, filter_params) ==
    IF ord = <<>> THEN [error |-> None, filter_params |-> filter_params]
    ELSE LET parts == split(Head(ord), "~")
         IN  IF ~unpack_ok(parts)
             THEN [error |-> "ValueError", filter_params |-> filter_params]
             ELSE filter_loop_untranslated(filters, Tail(ord), rev,
                    (expression(parts[1], parts[2]) :> filters[Head(ord)]) @@ filter_params)

\* Faulty variant: a key that does not unpack is skipped instead of ending the call.
RECURSIVE filter_loop_skip(_, _, _, _)
filter_loop_skip(filters, ord, rev, filter_params) ==
    IF ord = <<>> THEN [error |-> None, filter_params |-> filter_params]
    ELSE LET parts == split(Head(ord), "~")
         IN  IF ~unpack_ok(parts)
             THEN filter_loop_skip(filters, Tail(ord), rev, filter_params)
             ELSE filter_loop_skip(filters, Tail(ord), rev,
                    (expression(Get(rev, parts[1], parts[1]), parts[2]) :> filters[Head(ord)])
                        @@ filter_params)

\* Faulty variant: a parameter already set keeps its value (setdefault).
RECURSIVE filter_loop_keep_first(_, _, _, _)
filter_loop_keep_first(filters, ord, rev, filter_params) ==
    IF ord = <<>> THEN [error |-> None, filter_params |-> filter_params]
    ELSE LET parts == split(Head(ord), "~")
         IN  IF ~unpack_ok(parts)
             THEN [error |-> "ValueError", filter_params |-> filter_params]
             ELSE filter_loop_keep_first(filters, Tail(ord), rev,
                    filter_params @@
                    (expression(Get(rev, parts[1], parts[1]), parts[2]) :> filters[Head(ord)]))

\* The loop over filters.iteritems(), in the order `ord`; it stops at the
\* first key that does not unpack, with ValueError.
RECURSIVE filter_loop(_, _, _, _)
filter_loop(filters, ord, rev, filter_params) ==
    IF ord = <<>> THEN [error |-> None, filter_params |-> filter_params]
    ELSE LET key   == Head(ord)
             parts == split(key, "~")
         IN  IF ~unpack_ok(parts)
             THEN [error |-> "ValueError", filter_params |-> filter_params]
             ELSE LET labkey_column == Get(rev, parts[1], parts[1])
                      expr == expression(labkey_column, parts[2])
                  IN  filter_loop(filters, Tail(ord), rev,
                                  (expr :> filters[key]) @@ filter_params)

\* params = {...}; params.update(filter_params)
query_params(schema, query_name, columns, filter_params) ==
    filter_params @@
    (<<"schemaName">> :> schema) @@
    (<<"query.queryName">> :> query_name) @@
    (<<"query.columns">> :> join(columns, ","))

----------------------------------------------------------------------------
(* LabKey.query, lines 136-158: the response turned into a data frame.  A  *)
(* frame is its column labels, in order, and its rows, each the values     *)
(* under those labels.  The rows of a response are given as the keys the   *)
(* row objects carry (cols) and each row's values under them (data).       *)

\* pd.DataFrame.from_dict(rows): no rows give a frame without columns.
from_dict(rows) ==
    IF rows.data = <<>> THEN [columns |-> <<>>, data |-> <<>>]
    ELSE [columns |-> rows.cols, data |-> rows.data]

\* Faulty variant: rename() without inplace=True, its result dropped.
rename_not_inplace(frame, aliases) == frame

\* data_frame.rename(columns=aliases): every label that is a key of aliases
\* is replaced by its value, all labels at once.
rename(frame, aliases) ==
    [frame EXCEPT !.columns =
        [i \in DOMAIN frame.columns |-> Get(aliases, frame.columns[i], frame.columns[i])]]

\* Faulty variant: a column that exists already is left as it is.
setitem_only_new(frame, key, value) ==
    IF \E i \in DOMAIN frame.columns : frame.columns[i] = key THEN frame
    ELSE [columns |-> Append(frame.columns, key),
          data |-> [r \in DOMAIN frame.data |-> Append(frame.data[r], value)]]

\* data_frame[key] = value, value a scalar: every column labelled key is
\* overwritten; when there is none, a column is appended.
setitem(frame, key, value) ==
    IF \E i \in DOMAIN frame.columns : frame.columns[i] = key
    THEN [frame EXCEPT !.data =
            [r \in DOMAIN frame.data |->
                [i \in DOMAIN frame.columns |->
                    IF frame.columns[i] = key THEN value ELSE frame.data[r][i]]]]
    ELSE [columns |-> Append(frame.columns, key),
          data |-> [r \in DOMAIN frame.data |-> Append(frame.data[r], value)]]

\* for key, value in self.custom_columns.iteritems(): data_frame[key] = value
RECURSIVE add_custom_columns(_, _, _)
add_custom_columns(frame, custom_columns, ord) ==
    IF ord = <<>> THEN frame
    ELSE add_custom_columns(setitem(frame, Head(ord), custom_columns[Head(ord)]),
                            custom_columns, Tail(ord))

----------------------------------------------------------------------------
(* The calls.  Each operator computes what one call does from the instance *)
(* (self), the heap, the arguments and the server's response: the request  *)
(* it sends if any, the cookie jar afterwards, and how the call ends.      *)

NoRequest == [method |-> None]
NoFrame == [columns |-> <<>>, data |-> <<>>, metadata |-> <<>>]

\* LabKey.__init__: the attributes hold the arguments themselves; the
\* session is a new requests.Session(), its cookie jar empty.
init(host, email, password, project, schema, query_name,
     columns, aliases, custom_columns) ==
    [host |-> host, email |-> email, password |-> password, project |-> project,
     schema |-> schema, query_name |-> query_name, columns |-> columns,
     aliases |-> aliases, custom_columns |-> custom_columns, session |-> <<>>]

\* Faulty variant: login() without the check of lines 193-194.
login_unverified(self, email, password, response) ==
    [sent |-> TRUE,
     request |-> [method |-> "POST",
                  url |-> url(self.host, <<"login", "login.post">>),
                  data |-> [email |-> IF email = None THEN self.email ELSE email,
                            password |-> IF password = None THEN self.password
                                         ELSE password],
                  cookies |-> self.session],
     session |-> extract_cookies_to_jar(self.session, response.set_cookie),
     outcome |-> IF raise_for_status(response.status) THEN "HTTPError" ELSE "ok"]

\* LabKey.login
login(self, email, password, response) ==
    LET payload == [email |-> IF email = None THEN self.email ELSE email,
                    password |-> IF password = None THEN self.password ELSE password]
        request == [method |-> "POST",
                    url |-> url(self.host, <<"login", "login.post">>),
                    data |-> payload, cookies |-> self.session]
        jar == extract_cookies_to_jar(self.session, response.set_cookie)
    IN  [sent |-> TRUE, request |-> request, session |-> jar,
         outcome |-> IF raise_for_status(response.status) THEN "HTTPError"
                     ELSE IF "JSESSIONID" \notin DOMAIN jar THEN "RuntimeError"
                     ELSE "ok"]

\* Faulty variant: query() refuses to build a request while the jar holds no
\* JSESSIONID.
query_request_logged_in(self, hp, filters, rev, ford) ==
    LET loop == filter_loop(filters, ford, rev, <<>>)
    IN  [error |-> IF "JSESSIONID" \notin DOMAIN self.session THEN "RuntimeError"
                   ELSE loop.error,
         request |-> [method |-> "GET",
                      url |-> url(self.host, <<"query", self.project, "selectRows.api">>),
                      params |-> query_params(self.schema, self.query_name,
                                              request_columns(hp[self.columns], rev),
                                              loop.filter_params),
                      cookies |-> self.session]]

\* LabKey.query, lines 97-129: the request the call builds, or the error
\* the filter loop ends with.  rev is the reversed alias map, ford the order
\* in which the filters are iterated.
query_request(self, hp, filters, rev, ford) ==
    LET columns == request_columns(hp[self.columns], rev)
        loop    == filter_loop(filters, ford, rev, <<>>)
    IN  [error |-> loop.error,
         request |-> [method |-> "GET",
                      url |-> url(self.host, <<"query", self.project, "selectRows.api">>),
                      params |-> query_params(self.schema, self.query_name, columns,
                                              loop.filter_params),
                      cookies |-> self.session]]

\* LabKey.query, lines 136-158: the frame made of a response body.  cord is
\* the order in which the custom columns are iterated.
query_result(self, hp, body, cord) ==
    IF "rows" \notin DOMAIN body THEN [outcome |-> "KeyError", frame |-> NoFrame]
    ELSE LET metadata == [k \in DOMAIN body \ {"rows"} |-> body[k]]
             renamed  == rename(from_dict(body["rows"]), hp[self.aliases])
             frame    == add_custom_columns(renamed, hp[self.custom_columns], cord)
         IN  [outcome |-> "ok",
              frame |-> [columns |-> frame.columns, data |-> frame.data,
                         metadata |-> metadata]]

\* LabKey.query
query(self, hp, filters, rev, ford, cord, response) ==
    LET q   == query_request(self, hp, filters, rev, ford)
        jar == extract_cookies_to_jar(self.session, response.set_cookie)
        res == query_result(self, hp, response.body, cord)
    IN  IF q.error # None
        THEN [sent |-> FALSE, request |-> NoRequest, session |-> self.session,
              outcome |-> q.error, frame |-> NoFrame]
        ELSE IF raise_for_status(response.status)
        THEN [sent |-> TRUE, request |-> q.request, session |-> jar,
              outcome |-> "HTTPError", frame |-> NoFrame]
        ELSE [sent |-> TRUE, request |-> q.request, session |-> jar,
              outcome |-> res.outcome, frame |-> res.frame]

----------------------------------------------------------------------------
(* LabKey.from_yaml_file.  The document yaml.load returns is a dict with   *)
(* the dict `default` and the list `servers` of dicts; a list or dict      *)
(* value of an entry is an object of the heap, a scalar value is itself.   *)

\* The keys read at lines 37-45, in the order they are read.
RequiredKeys ==
    <<"host", "email", "password", "project", "schema", "query_name",
      "columns", "aliases", "custom_columns">>

\* Faulty variant: config = default_config, without .copy(): update() then writes
\* into the default section itself.
update_default_itself(default_config, server) ==
    [config |-> server @@ default_config, default_config |-> server @@ default_config]

\* config = default_config.copy(); config.update(server): the merged dict,
\* and the default section as the two statements leave it.
copy_and_update(default_config, server) ==
    [config |-> server @@ default_config, default_config |-> default_config]

\* The loop of lines 30-48 over the servers not yet processed.  The first
\* key of lines 37-45 missing from the merged dict raises KeyError.
RECURSIVE load_servers(_, _, _)
load_servers(default_config, servers, labkey_instances) ==
    IF servers = <<>>
    THEN [error |-> None, key |-> None, labkey_instances |-> labkey_instances,
          default_config |-> default_config]
    ELSE LET merged  == copy_and_update(default_config, Head(servers))
             cfg     == merged.config
             missing == {i \in DOMAIN RequiredKeys : RequiredKeys[i] \notin DOMAIN cfg}
         IN  IF missing # {}
             THEN [error |-> "KeyError",
                   key |-> RequiredKeys[CHOOSE i \in missing : \A j \in missing : i <= j],
                   labkey_instances |-> <<>>,
                   default_config |-> merged.default_config]
             ELSE load_servers(merged.default_config, Tail(servers),
                    Append(labkey_instances,
                           init(cfg["host"], cfg["email"], cfg["password"],
                                cfg["project"], cfg["schema"], cfg["query_name"],
                                cfg["columns"], cfg["aliases"], cfg["custom_columns"])))

\* LabKey.from_yaml_file, from line 26 on.
from_yaml_file(document) ==
    load_servers(document.default, document.servers, <<>>)

----------------------------------------------------------------------------
(* Inputs.                                                                 *)

ColChars == {"g", "s"}
ColNames == [1..1 -> ColChars]
KeyChars == ColChars \cup {"~"}
FilterKeys == SeqsUpTo(KeyChars, MaxKeyLen)
FilterValues == {"Male", "Female"}

\* The filter mappings of one or two entries, and the empty one.
FilterMaps ==
    {<<>>} \cup {(k1 :> v1) @@ (k2 :> v2) :
                    <<k1, k2>> \in FilterKeys \X FilterKeys,
                    <<v1, v2>> \in FilterValues \X FilterValues}

AliasMaps == Dicts(ColNames, ColNames)
ColumnLists == SeqsUpTo(ColNames, MaxColumns)
CustomNames == {<<"g">>, <<"b">>}
CustomMaps == Dicts(CustomNames, {"2024-01"})

CookieNames == {"JSESSIONID", "X-CSRF"}
CookieValues == {"v1"}
SetCookies == Dicts(CookieNames, CookieValues \cup {Expired})
Statuses == {200, 401}

\* The row lists a response can carry: the keys of the row objects, and at
\* most MaxRows rows.
RowValues == {"x", "y"}
RowKeys == {c \in SeqsUpTo(ColNames, Cardinality(ColNames)) : \A i, j \in DOMAIN c : i # j => c[i] # c[j]}
RowLists ==
    UNION {[cols : {c}, data : SeqsUpTo([DOMAIN c -> RowValues], MaxRows)] : c \in RowKeys}

Bodies(rowlists) ==
    {("rowCount" :> 0)} \cup {("rows" :> r) @@ ("rowCount" :> Len(r.data)) : r \in rowlists}

Responses(setcookies, bodies) ==
    [status : Statuses, set_cookie : setcookies, body : bodies]

----------------------------------------------------------------------------
(* State and actions.                                                      *)

\* The objects Python builds once, when `def __init__` is evaluated, for the
\* defaults columns=[], aliases={} and custom_columns={}.
DefaultColumns == 1
DefaultAliases == 2
DefaultCustomColumns == 3
DefaultObjects == <<<<>>, <<>>, <<>>>>

Host(name) == [origin |-> name, dir |-> <<"labkey">>, leaf |-> ""]

\* No file has been read.
NoDocument == [default |-> <<>>, servers |-> <<>>]

NoHistory == [login_ok |-> FALSE, received |-> {}]

\* One instance built by the caller with objects of its own: its columns,
\* aliases and custom columns are the three objects after the defaults.
OneInstance(columns, aliases, custom_columns) ==
    /\ heap = DefaultObjects \o <<columns, aliases, custom_columns>>
    /\ conns = <<init(Host("http://host"), "user@host", "secret", "project",
                      "schema", "query_name", 4, 5, 6)>>
    /\ config = NoDocument
    /\ hist = <<NoHistory>>
    /\ last = [op |-> "init"]

\* What the instance's calls have done: whether a login() has returned
\* normally, and the cookies responses have stored in its jar.
record_call(h, op, r, response) ==
    [login_ok |-> h.login_ok \/ (op = "login" /\ r.outcome = "ok"),
     received |-> h.received \cup
        (IF r.sent THEN {n \in DOMAIN response.set_cookie : response.set_cookie[n] # Expired}
         ELSE {})]

\* A call of login() on instance c.
Login(c, email, password, response) ==
    /\ c \in DOMAIN conns
    /\ LET r == login(conns[c], email, password, response)
       IN  /\ conns' = [conns EXCEPT ![c].session = r.session]
           /\ hist' = [hist EXCEPT ![c] = record_call(hist[c], "login", r, response)]
           /\ last' = [op |-> "login", conn |-> c, before |-> conns[c],
                       response |-> response, sent |-> r.sent,
                       request |-> r.request, outcome |-> r.outcome]
    /\ UNCHANGED <<heap, config>>

\* A call of query() on instance c.
Query(c, filters, response) ==
    /\ c \in DOMAIN conns
    /\ \E rev \in reverse_aliases(heap[conns[c].aliases]),
          ford \in Orders(DOMAIN filters),
          cord \in Orders(DOMAIN heap[conns[c].custom_columns]) :
          LET r == query(conns[c], heap, filters, rev, ford, cord, response)
          IN  /\ conns' = [conns EXCEPT ![c].session = r.session]
              /\ hist' = [hist EXCEPT ![c] = record_call(hist[c], "query", r, response)]
              /\ last' = [op |-> "query", conn |-> c, before |-> conns[c],
                          filters |-> filters, rev |-> rev, ford |-> ford,
                          response |-> response, sent |-> r.sent,
                          request |-> r.request, outcome |-> r.outcome,
                          frame |-> r.frame]
    /\ UNCHANGED <<heap, config>>

\* A call of LabKey.from_yaml_file on the document.  The instances it
\* returns join the instances alive; when it raises, the instances built
\* so far are dropped with the list that held them.
FromYamlFile ==
    LET r == from_yaml_file(config)
    IN  /\ conns' = conns \o r.labkey_instances
        /\ hist' = hist \o [i \in DOMAIN r.labkey_instances |-> NoHistory]
        /\ config' = [config EXCEPT !.default = r.default_config]
        /\ last' = [op |-> "from_yaml_file", document |-> config,
                    outcome |-> IF r.error = None THEN "ok" ELSE r.error,
                    key |-> r.key,
                    returned |-> r.labkey_instances]
        /\ UNCHANGED heap

\* LabKey(host=...), the columns, aliases and custom columns left to their
\* defaults: the attributes are the default objects themselves.
NewDefault ==
    /\ Len(conns) < MaxConns
    /\ conns' = Append(conns,
            init(Host("http://host"), "user@host", "secret", "project", "schema",
                 "query_name", DefaultColumns, DefaultAliases, DefaultCustomColumns))
    /\ hist' = Append(hist, NoHistory)
    /\ last' = [op |-> "new"]
    /\ UNCHANGED <<heap, config>>

\* LabKey(host=..., columns=[], aliases={}, custom_columns={}): the caller
\* passes a new list and new dicts.
NewOwn ==
    /\ Len(conns) < MaxConns
    /\ heap' = heap \o <<<<>>, <<>>, <<>>>>
    /\ conns' = Append(conns,
            init(Host("http://host"), "user@host", "secret", "project", "schema",
                 "query_name", Len(heap) + 1, Len(heap) + 2, Len(heap) + 3))
    /\ hist' = Append(hist, NoHistory)
    /\ last' = [op |-> "new"]
    /\ UNCHANGED config

\* The caller changes an attribute of instance c in place:
\* c.columns.append("s"), c.aliases["g"] = "s" or
\* c.custom_columns["b"] = "2024-01".
Update(c, attribute) ==
    /\ c \in DOMAIN conns
    /\ LET object == conns[c][attribute]
           value  == heap[object]
       IN  IF attribute = "columns"
           THEN /\ Len(value) < MaxColumns
                /\ heap' = [heap EXCEPT ![object] = Append(value, <<"s">>)]
           ELSE IF attribute = "aliases"
           THEN /\ <<"g">> \notin DOMAIN value
                /\ heap' = [heap EXCEPT ![object] = (<<"g">> :> <<"s">>) @@ value]
           ELSE /\ <<"b">> \notin DOMAIN value
                /\ heap' = [heap EXCEPT ![object] = (<<"b">> :> "2024-01") @@ value]
    /\ last' = [op |-> "update", conn |-> c, attribute |-> attribute]
    /\ UNCHANGED <<conns, config, hist>>

----------------------------------------------------------------------------
(* Spec: login() and query() calls, in any order, on one instance.         *)

SessionFilters ==
    {<<>>, (<<"g", "~", "s">> :> "Male"), (<<"g">> :> "Male")}
SessionResponses ==
    Responses(SetCookies, {("rows" :> [cols |-> <<>>, data |-> <<>>]) @@ ("rowCount" :> 0)})

Init == OneInstance(<<<<"g">>>>, (<<"s">> :> <<"g">>), (<<"b">> :> "2024-01"))

SessionLogin ==
    \E c \in DOMAIN conns, email \in {None, "other@host"}, response \in SessionResponses :
        Login(c, email, None, response)

SessionQuery ==
    \E c \in DOMAIN conns, filters \in SessionFilters, response \in SessionResponses :
        Query(c, filters, response)

Next == SessionLogin \/ SessionQuery

Spec == Init /\ [][Next]_vars

----------------------------------------------------------------------------
(* SpecFilter: one query() on a new instance, for every alias map and      *)
(* every filter mapping of the bounds.                                     *)

OkResponse ==
    [status |-> 200, set_cookie |-> <<>>,
     body |-> ("rows" :> [cols |-> <<>>, data |-> <<>>]) @@ ("rowCount" :> 0)]

InitFilter == \E aliases \in AliasMaps : OneInstance(<<<<"g">>>>, aliases, <<>>)

FilterQuery ==
    /\ last.op = "init"
    /\ \E c \in DOMAIN conns, filters \in FilterMaps : Query(c, filters, OkResponse)

SpecFilter == InitFilter /\ [][FilterQuery]_vars

----------------------------------------------------------------------------
(* SpecFrame: one query() without filters on a new instance, for every     *)
(* column list, alias map and custom columns of the bounds, answered by    *)
(* every response of the bounds.                                           *)

InitFrame ==
    \E columns \in ColumnLists, aliases \in AliasMaps, custom_columns \in CustomMaps :
        OneInstance(columns, aliases, custom_columns)

FrameQuery ==
    /\ last.op = "init"
    /\ \E c \in DOMAIN conns, response \in Responses({<<>>}, Bodies(RowLists)) :
        Query(c, <<>>, response)

SpecFrame == InitFrame /\ [][FrameQuery]_vars

----------------------------------------------------------------------------
(* SpecLoad: from_yaml_file on every document of the bounds.  Entry 0 is   *)
(* the default section, entry i the i-th server.  Every value of a         *)
(* document tells the entry and the key it was written under, so that the  *)
(* origin of an attribute can be read off an instance; the list and dict   *)
(* values are objects of their own, as yaml.load builds them.              *)

ContainerKeys == <<"columns", "aliases", "custom_columns">>
ContainerValues == <<<<<<"g">>>>, (<<"s">> :> <<"g">>), <<>>>>

ObjectOf(entry, key) ==
    Len(DefaultObjects) + Len(ContainerKeys) * entry
        + CHOOSE i \in DOMAIN ContainerKeys : ContainerKeys[i] = key

ValueOf(entry, key) ==
    IF key \in Range(ContainerKeys) THEN ObjectOf(entry, key)
    ELSE IF key = "host" THEN Host([entry |-> entry, key |-> key])
    ELSE [entry |-> entry, key |-> key]

Entry(entry, keys) == [key \in keys |-> ValueOf(entry, key)]

\* The heap after yaml.load of a document with n servers.
HeapOfDocument(n) ==
    DefaultObjects \o
    [j \in 1..(Len(ContainerKeys) * (n + 1)) |->
        ContainerValues[((j - 1) % Len(ContainerKeys)) + 1]]

\* Default sections that lack none, one or two of the keys; server entries
\* that define none or one of them.
DefaultKeySets == {Range(RequiredKeys) \ {a, b} : a, b \in Range(RequiredKeys) \cup {None}}
ServerKeySets == {{}} \cup {{a} : a \in Range(RequiredKeys)}

Documents ==
    UNION {[default : {Entry(0, keys) : keys \in DefaultKeySets},
            servers : {[i \in 1..n |-> Entry(i, ks[i])] : ks \in [1..n -> ServerKeySets]}]
           : n \in 0..MaxServers}

InitLoad ==
    \E document \in Documents :
        /\ heap = HeapOfDocument(Len(document.servers))
        /\ conns = <<>>
        /\ config = document
        /\ hist = <<>>
        /\ last = [op |-> "init"]

LoadFile == last.op = "init" /\ FromYamlFile

SpecLoad == InitLoad /\ [][LoadFile]_vars

----------------------------------------------------------------------------
(* SpecShare: instances built by the constructor and by the loader, the    *)
(* caller's changes to their attributes, and logins.  The file is read     *)
(* first if at all; its servers define their host or nothing.              *)

ShareDocuments ==
    {d \in Documents :
        /\ DOMAIN d.default = Range(RequiredKeys)
        /\ Len(d.servers) <= MaxConns
        /\ \A i \in DOMAIN d.servers : DOMAIN d.servers[i] \subseteq {"host"}}

ShareResponses ==
    {[status |-> 200, set_cookie |-> ("JSESSIONID" :> "v1"), body |-> <<>>],
     [status |-> 401, set_cookie |-> <<>>, body |-> <<>>]}

InitShare ==
    \E document \in ShareDocuments :
        /\ heap = HeapOfDocument(Len(document.servers))
        /\ conns = <<>>
        /\ config = document
        /\ hist = <<>>
        /\ last = [op |-> "init"]

ShareUpdate ==
    \E c \in DOMAIN conns, attribute \in Range(ContainerKeys) : Update(c, attribute)

ShareLogin ==
    \E c \in DOMAIN conns, response \in ShareResponses : Login(c, None, None, response)

NextShare == LoadFile \/ NewDefault \/ NewOwn \/ ShareUpdate \/ ShareLogin

SpecShare == InitShare /\ [][NextShare]_vars

----------------------------------------------------------------------------
(* Claims checked under Spec.                                             *)

Tildes(key) == Cardinality({i \in DOMAIN key : key[i] = "~"})

\* The last call was made on an instance and has ended with an error.
FailedCall == last.op \in {"login", "query"} /\ last.outcome # "ok"

\* C3: when login() receives a success status and the session holds no
\* JSESSIONID afterwards (the response stored none and the jar held none, or
\* the response expired it), login() ends with the authentication error and
\* the jar holds no JSESSIONID; and login() ends with that error only then.
C3_LoginWithoutSessionCookieFails ==
    (last.op = "login" /\ ~raise_for_status(last.response.status)) =>
        LET sc    == last.response.set_cookie
            after == conns[last.conn].session
            none  == \/ ("JSESSIONID" \in DOMAIN sc /\ sc["JSESSIONID"] = Expired)
                     \/ ("JSESSIONID" \notin DOMAIN sc
                            /\ "JSESSIONID" \notin DOMAIN last.before.session)
        IN  /\ none => (last.outcome = "RuntimeError" /\ "JSESSIONID" \notin DOMAIN after)
            /\ ~none => last.outcome = "ok"

\* C3, reached: A login() answered 200 with another cookie but no JSESSIONID has failed,
\* and the other cookie is in the jar.
C3_Witness ==
    /\ last.op = "login"
    /\ last.outcome = "RuntimeError"
    /\ last.response.status = 200
    /\ "X-CSRF" \in DOMAIN conns[last.conn].session
    /\ "JSESSIONID" \notin DOMAIN conns[last.conn].session

\* C6 as stated: a query request is issued only when the session already
\* holds the session cookie of an earlier successful login().
C6_QueryOnlyAfterLogin ==
    (last.op = "query" /\ last.sent) =>
        (hist[last.conn].login_ok /\ "JSESSIONID" \in DOMAIN last.request.cookies)

\* C6 amended: query() does not look at the session.  It sends its request
\* exactly when every filter key unpacks, with the cookies the jar holds at
\* that moment; and a jar holds only cookies that responses to this
\* instance's own calls have stored.
C6_QuerySendsWhateverTheJarHolds ==
    /\ \A c \in DOMAIN conns : DOMAIN conns[c].session \subseteq hist[c].received
    /\ last.op = "query" =>
        /\ last.sent <=> \A key \in DOMAIN last.filters : Tildes(key) = 1
        /\ last.sent => last.request.cookies = last.before.session

\* C6, reached: A query() has sent its request from a jar without JSESSIONID, on an
\* instance no login() has succeeded on.
C6_Witness ==
    /\ last.op = "query"
    /\ last.sent
    /\ "JSESSIONID" \notin DOMAIN last.request.cookies
    /\ ~hist[last.conn].login_ok

\* C7 as stated: after a failed login() or query() the instance is as it
\* was before the call, its cookie jar included.
C7_FailedCallChangesNothing ==
    FailedCall => conns[last.conn] = last.before

\* C7 amended: a failed call leaves every attribute but the session as it
\* was; a query() that fails on a filter key sends nothing and leaves the jar
\* as it was too; a call that fails after its request was sent leaves the
\* jar as the response's Set-Cookie headers make it.
C7_FailedCallKeepsAttributesNotCookies ==
    FailedCall =>
        LET after == conns[last.conn]
            sc    == last.response.set_cookie
        IN  /\ [after EXCEPT !.session = last.before.session] = last.before
            /\ ~last.sent => after.session = last.before.session
            /\ last.sent =>
                \A n \in CookieNames :
                    IF n \in DOMAIN sc
                    THEN IF sc[n] = Expired THEN n \notin DOMAIN after.session
                         ELSE n \in DOMAIN after.session /\ after.session[n] = sc[n]
                    ELSE /\ n \in DOMAIN after.session <=> n \in DOMAIN last.before.session
                         /\ n \in DOMAIN after.session =>
                                after.session[n] = last.before.session[n]

\* C7, reached: A login() answered 401 has failed and its response's cookies are in the
\* jar, which was empty before.
C7_Witness ==
    /\ last.op = "login"
    /\ last.outcome = "HTTPError"
    /\ last.before.session = <<>>
    /\ DOMAIN conns[last.conn].session = CookieNames

----------------------------------------------------------------------------
(* Claims checked under SpecFilter.                                        *)

\* A filter key read as the claims read it: the column before its first
\* "~", the operator after it.
FirstTilde(key) == CHOOSE i \in DOMAIN key : key[i] = "~" /\ \A j \in 1..(i - 1) : key[j] # "~"
ColumnOf(key) == SubSeq(key, 1, FirstTilde(key) - 1)
OperatorOf(key) == SubSeq(key, FirstTilde(key) + 1, Len(key))

\* The alias map of the instance the last call was made on.
LastAliases == heap[conns[last.conn].aliases]

\* The reversed alias map the last query() built is a reversal of the
\* alias map: it maps every alias, and only aliases, to a column it names.
ReversalOK ==
    /\ DOMAIN last.rev = Range(LastAliases)
    /\ \A v \in DOMAIN last.rev :
        last.rev[v] \in DOMAIN LastAliases /\ LastAliases[last.rev[v]] = v

\* The server-native name of a user-facing column, under that reversal.
NativeOf(column) ==
    IF column \in Range(LastAliases) THEN last.rev[column] ELSE column

\* The request parameter a filter key stands for.
ParamOf(key) == <<"query.">> \o NativeOf(ColumnOf(key)) \o <<"~">> \o OperatorOf(key)

\* The filter parameters of the request the last query() sent.
SentFilterParams ==
    DOMAIN last.request.params \
        {<<"schemaName">>, <<"query.queryName">>, <<"query.columns">>}

\* C1 as stated: every key that contains a "~" is split at its first "~",
\* and the request carries the translated parameter bound to the key's
\* value, also when the key contains more than one "~".
C1_EveryKeySplitsAtFirstTilde ==
    (last.op = "query" /\ \A key \in DOMAIN last.filters : Tildes(key) >= 1) =>
        /\ last.sent
        /\ \A key \in DOMAIN last.filters :
            /\ ParamOf(key) \in DOMAIN last.request.params
            /\ last.request.params[ParamOf(key)] = last.filters[key]

\* C1 amended: when every key contains exactly one "~", the request carries
\* for each key the parameter query.<native column>~<operator>, the column
\* translated through a reversal of the alias map and unchanged when it is
\* no alias; the parameter is bound to the key's value when no other key
\* stands for the same parameter, and to the value of one of the keys that
\* do otherwise.  A key with more than one "~" ends the call with the parse
\* error, and nothing is sent.
C1_KeyWithOneTildeIsTranslated ==
    last.op = "query" =>
        /\ ReversalOK
        /\ (\A key \in DOMAIN last.filters : Tildes(key) = 1) =>
            /\ last.sent
            /\ \A key \in DOMAIN last.filters :
                LET same == {k \in DOMAIN last.filters : ParamOf(k) = ParamOf(key)}
                IN  /\ ParamOf(key) \in DOMAIN last.request.params
                    /\ last.request.params[ParamOf(key)] \in {last.filters[k] : k \in same}
        /\ (\E key \in DOMAIN last.filters : Tildes(key) > 1) =>
            (~last.sent /\ last.outcome = "ValueError")

\* C1, reached: A query() filtered on an alias has sent the parameter under the
\* server-native name.
C1_Witness ==
    /\ last.op = "query"
    /\ last.sent
    /\ LastAliases = (<<"s">> :> <<"g">>)
    /\ last.filters = (<<"g", "~", "g">> :> "Male")
    /\ last.request.params[<<"query.", "s", "~", "g">>] = "Male"

\* C2: a filter key without "~" ends query() with the parse error, no
\* request is sent and the session is as it was, whatever the other keys
\* are and in whatever order the keys are iterated.
C2_KeyWithoutTildeFailsBeforeRequest ==
    (last.op = "query" /\ \E key \in DOMAIN last.filters : Tildes(key) = 0) =>
        /\ last.outcome = "ValueError"
        /\ ~last.sent
        /\ conns[last.conn] = last.before

\* C2, reached: A query() with a well-formed key iterated before a key without "~" has
\* failed.
C2_Witness ==
    /\ last.op = "query"
    /\ last.outcome = "ValueError"
    /\ Len(last.ford) = 2
    /\ Tildes(last.ford[1]) = 1
    /\ Tildes(last.ford[2]) = 0

\* C10 as stated: with well-formed keys, the request carries as many filter
\* parameters as the filter mapping has entries.
C10_OneParameterPerFilter ==
    (last.op = "query" /\ \A key \in DOMAIN last.filters : Tildes(key) = 1) =>
        /\ last.sent
        /\ Cardinality(SentFilterParams) = Cardinality(DOMAIN last.filters)

\* C10 amended: with well-formed keys, the request carries one filter
\* parameter per distinct translated name; the keys that stand for the same
\* parameter are merged into it, with the value of the one iterated last.
C10_OneParameterPerTranslatedName ==
    (last.op = "query" /\ \A key \in DOMAIN last.filters : Tildes(key) = 1) =>
        /\ last.sent
        /\ SentFilterParams = {ParamOf(key) : key \in DOMAIN last.filters}
        /\ \A i \in DOMAIN last.ford :
            (\A j \in DOMAIN last.ford : j > i => ParamOf(last.ford[j]) # ParamOf(last.ford[i]))
                => last.request.params[ParamOf(last.ford[i])] = last.filters[last.ford[i]]

\* C10, reached: A column filtered by its alias and by its server-native name, with the
\* same operator and different values, has reached the server as one
\* parameter.
C10_Witness ==
    /\ last.op = "query"
    /\ last.sent
    /\ LastAliases = (<<"s">> :> <<"g">>)
    /\ last.filters = (<<"g", "~", "g">> :> "Male") @@ (<<"s", "~", "g">> :> "Female")
    /\ Cardinality(SentFilterParams) = 1

----------------------------------------------------------------------------
(* Claims checked under SpecFrame.                                         *)

LastColumns == heap[conns[last.conn].columns]
LastCustomColumns == heap[conns[last.conn].custom_columns]

\* No two keys of the alias map carry the same value.
NoCollidingValues(aliases) ==
    \A a, b \in DOMAIN aliases : aliases[a] = aliases[b] => a = b

\* The last call is a query() that returned a frame, and the server had
\* answered with rows keyed by exactly the columns the request named.
AnsweredAsRequested ==
    /\ last.op = "query"
    /\ last.outcome = "ok"
    /\ last.response.body["rows"].data # <<>>
    /\ last.response.body["rows"].cols =
            split(last.request.params[<<"query.columns">>], ",")

\* C4 as stated: with no colliding alias values, the configured columns,
\* translated for the request and renamed in the result, come back under
\* their original names.
C4_ColumnsRoundTrip ==
    (AnsweredAsRequested /\ NoCollidingValues(LastAliases)) =>
        SubSeq(last.frame.columns, 1, Len(LastColumns)) = LastColumns

\* C4 amended: with no colliding alias values, a configured column comes
\* back under its original name when it is an alias (a value of the alias
\* map) or no key of the alias map; a column that is a key of the alias map
\* without being an alias is sent as it is and comes back as its alias.
C4_ColumnsRoundTripUnlessNativeWithAlias ==
    (AnsweredAsRequested /\ NoCollidingValues(LastAliases)) =>
        /\ Len(last.frame.columns) >= Len(LastColumns)
        /\ \A i \in DOMAIN LastColumns :
            last.frame.columns[i] =
                IF LastColumns[i] \in DOMAIN LastAliases \ Range(LastAliases)
                THEN LastAliases[LastColumns[i]]
                ELSE LastColumns[i]

\* C4, reached: An aliased column was requested under its server-native name and came
\* back under the alias.
C4_Witness ==
    /\ AnsweredAsRequested
    /\ LastAliases = (<<"s">> :> <<"g">>)
    /\ LastColumns = <<<<"g">>>>
    /\ last.response.body["rows"].cols = <<<<"s">>>>
    /\ last.frame.columns[1] = <<"g">>

\* C5: after a successful query() every custom column is a column of the
\* result, carrying its literal on every row, also when there are no rows
\* and also when a server column has that name after the renaming; the
\* rows are those of the response.
C5_CustomColumnsOnEveryRow ==
    (last.op = "query" /\ last.outcome = "ok") =>
        /\ Len(last.frame.data) = Len(last.response.body["rows"].data)
        /\ \A key \in DOMAIN LastCustomColumns :
            /\ \E i \in DOMAIN last.frame.columns : last.frame.columns[i] = key
            /\ \A i \in DOMAIN last.frame.columns :
                last.frame.columns[i] = key =>
                    \A r \in DOMAIN last.frame.data :
                        /\ Len(last.frame.data[r]) = Len(last.frame.columns)
                        /\ last.frame.data[r][i] = LastCustomColumns[key]

\* C5, reached: A server column renamed to the name of a custom column carries the
\* custom column's literal on both rows of the result.
C5_Witness ==
    /\ last.op = "query"
    /\ last.outcome = "ok"
    /\ LastAliases = (<<"s">> :> <<"g">>)
    /\ <<"g">> \in DOMAIN LastCustomColumns
    /\ last.response.body["rows"].cols = <<<<"s">>>>
    /\ Len(last.frame.data) = 2
    /\ last.frame.columns = <<<<"g">>>>
    /\ \A r \in DOMAIN last.frame.data : last.frame.data[r][1] = "2024-01"

\* C5, reached without rows: a query() answered without rows has returned
\* a frame that has the custom column and no rows.
C5_NoRows ==
    /\ last.op = "query"
    /\ last.outcome = "ok"
    /\ last.frame.data = <<>>
    /\ last.frame.columns = <<<<"b">>>>

----------------------------------------------------------------------------
(* Claims checked under SpecLoad.                                          *)

\* The value the claim gives an attribute of the instance built for server
\* i of the document: the server entry's when it defines the key, the
\* default section's otherwise.
Expected(document, i, key) ==
    IF key \in DOMAIN document.servers[i] THEN document.servers[i][key]
    ELSE document.default[key]

\* Every key is defined by the server entry or by the default section.
Complete(document, i) ==
    \A key \in Range(RequiredKeys) :
        key \in DOMAIN document.servers[i] \cup DOMAIN document.default

\* C9: the loader returns one instance per server entry, in order, each of
\* the nine attributes the server entry's value when it defines the key and
\* the default section's otherwise, and leaves the default section as it
\* was; when a key is in neither, it fails and returns no instance.
C9_OneInstancePerServer ==
    last.op = "from_yaml_file" =>
        LET document == last.document
        IN  /\ config.default = document.default
            /\ IF \A i \in DOMAIN document.servers : Complete(document, i)
               THEN /\ last.outcome = "ok"
                    /\ conns = last.returned
                    /\ Len(conns) = Len(document.servers)
                    /\ \A i \in DOMAIN conns :
                        /\ conns[i].host = Expected(document, i, "host")
                        /\ conns[i].email = Expected(document, i, "email")
                        /\ conns[i].password = Expected(document, i, "password")
                        /\ conns[i].project = Expected(document, i, "project")
                        /\ conns[i].schema = Expected(document, i, "schema")
                        /\ conns[i].query_name = Expected(document, i, "query_name")
                        /\ conns[i].columns = Expected(document, i, "columns")
                        /\ conns[i].aliases = Expected(document, i, "aliases")
                        /\ conns[i].custom_columns = Expected(document, i, "custom_columns")
                        /\ conns[i].session = <<>>
               ELSE /\ last.outcome = "KeyError"
                    /\ conns = <<>>
                    /\ last.returned = <<>>

\* C9, reached: Two servers were loaded: the first defines its host, the second inherits
\* the default section's.
C9_Witness ==
    /\ last.op = "from_yaml_file"
    /\ last.outcome = "ok"
    /\ Len(conns) = 2
    /\ DOMAIN last.document.default = Range(RequiredKeys)
    /\ DOMAIN last.document.servers[1] = {"host"}
    /\ conns[1].host = last.document.servers[1]["host"]
    /\ conns[2].host = last.document.default["host"]
    /\ conns[2].host # conns[1].host

----------------------------------------------------------------------------
(* Claims checked under SpecShare.                                         *)

\* What is seen through instance c: the values of its columns, aliases and
\* custom columns, and its cookies.
View(c) ==
    [columns |-> heap[conns[c].columns], aliases |-> heap[conns[c].aliases],
     custom_columns |-> heap[conns[c].custom_columns], session |-> conns[c].session]

\* C8: a change made through one instance (to its columns, aliases or
\* custom columns, or by a login to its cookies) is never seen through
\* another instance.
C8_InstancesShareNoState ==
    [][last'.op \in {"update", "login"} =>
        \A c \in DOMAIN conns : c # last'.conn => View(c)' = View(c)]_vars

====
